---- MODULE Spec2Model ----
(***************************************************************************)
(* Model of the ESP32 servo clock's hardware abstraction:                  *)
(*   src/clock/pca9685.py  PCA9685, PWMPin, ServoController, ServoPin      *)
(*   src/clock/clock.py    Segment, bits_representation                    *)
(* The I2C peripheral is a byte-addressable register file (mem).  Every    *)
(* action is one call made on the board or the segment; op, args, err and  *)
(* ret describe that call and its outcome, log holds the bus transactions  *)
(* and delays the call issued, dutylog the duty assignments it made;       *)
(* budget is the number of calls a run may still make.                     *)
(***************************************************************************)
EXTENDS Integers, Sequences, FiniteSets, TLC

VARIABLES kind, min_duty, max_duty, _duties, mem,
          op, args, err, ret, log, dutylog, budget

vars == <<kind, min_duty, max_duty, _duties, mem,
          op, args, err, ret, log, dutylog, budget>>

(***************************************************************************)
(* Bounds of the model.                                                    *)
(***************************************************************************)
\* number of calls made on one board in the bounded specification Spec
MaxCalls == 1
\* set_frequency is tried on the FreqMargin frequencies next to each end of
\* the accepted range from outside, and the FreqSpan next to it from inside
FreqMargin == 3
FreqSpan == 25
\* Segment.write is tried on every number -NumMargin .. 99 + NumMargin
NumMargin == 2

(***************************************************************************)
(* Register map and constants of pca9685.py.                               *)
(***************************************************************************)
MODE1 == 0
PRESCALE == 254
LED0_ON_L == 6
NumPins == 16
OscClock == 25000000
Counts == 4096
MinFrequency == 24
MaxFrequency == 1526
SleepMode == 16
RestartMode == 161
SleepMicros == 500
DefaultFrequency == 50
DefaultMinDuty == 180
DefaultMaxDuty == 500

Pins == 0 .. (NumPins - 1)

\* a pin taken to span two registers instead of four
address_packed(i) == LED0_ON_L + (2 * i)

\* PWMPin.__init__: first register of pin i
address(i) == LED0_ON_L + (4 * i)

Regs == {MODE1, PRESCALE} \cup (LED0_ON_L .. (LED0_ON_L + 4 * NumPins - 1))

(***************************************************************************)
(* Python arithmetic used by the code.                                     *)
(***************************************************************************)
\* round(a / b) for a >= 0, b > 0: nearest integer, ties to the even one
round(a, b) ==
    LET q == a \div b
        r == a % b
    IN  IF 2 * r < b THEN q
        ELSE IF 2 * r > b THEN q + 1
        ELSE IF q % 2 = 0 THEN q ELSE q + 1

\* min / max builtins
min(a, b) == IF a <= b THEN a ELSE b
max(a, b) == IF a >= b THEN a ELSE b

\* ustruct.pack("<2H", on, off)
pack(on, off) == <<on % 256, on \div 256, off % 256, off \div 256>>

\* ustruct.unpack("<2H", data)
unpack(data) == <<data[1] + 256 * data[2], data[3] + 256 * data[4]>>

\* t[k] on a Python tuple (0-based, negative k counts from the end)
InRange(t, k) == (-Len(t) <= k) /\ (k < Len(t))
item(t, k) == IF k >= 0 THEN t[k + 1] ELSE t[Len(t) + k + 1]

(***************************************************************************)
(* Bus events recorded in log.                                             *)
(***************************************************************************)
WriteEvent(reg, data) == [ev |-> "write", reg |-> reg, data |-> data]
ReadEvent(reg, data) == [ev |-> "read", reg |-> reg, data |-> data]
SleepEvent(us) == [ev |-> "sleep_us", reg |-> -1, data |-> <<us>>]

\* the running state of one call: registers, events so far, pending error
Begin(m) == [mem |-> m, log |-> <<>>, dutylog |-> <<>>, err |-> "none"]

(***************************************************************************)
(* PCA9685                                                                 *)
(***************************************************************************)
\* the length check of PCA9685.read_memory
ValidLength(length) == (length = 1) \/ (length % 2 = 0)

\* i2c.readfrom_mem(address, memory_address, length)
readfrom_mem(m, reg, length) == [k \in 1 .. length |-> m[reg + k - 1]]

\* i2c.writeto_mem(address, memory_address, data)
RECURSIVE store(_, _, _, _)
store(m, reg, data, k) ==
    IF k > Len(data) THEN m
    ELSE store([m EXCEPT ![reg + k - 1] = data[k]], reg, data, k + 1)

writeto_mem(m, reg, data) == store(m, reg, data, 1)

\* PCA9685.read_memory
read_memory(st, reg, length) ==
    IF st.err # "none" THEN st
    ELSE IF ValidLength(length)
    THEN [st EXCEPT !.log = Append(st.log, ReadEvent(reg, readfrom_mem(st.mem, reg, length)))]
    ELSE [st EXCEPT !.err = "ValueError"]

\* PCA9685.write_memory: a list is validated byte by byte, bytes are not
write_memory(st, reg, values, isBytes) ==
    IF st.err # "none" THEN st
    ELSE IF (~isBytes) /\ (\E k \in 1 .. Len(values) : ~((0 <= values[k]) /\ (values[k] <= 255)))
    THEN [st EXCEPT !.err = "ValueError"]
    ELSE [st EXCEPT !.mem = writeto_mem(st.mem, reg, values),
                    !.log = Append(st.log, WriteEvent(reg, values))]

\* time.sleep_us
sleep_us(st, us) ==
    IF st.err # "none" THEN st
    ELSE [st EXCEPT !.log = Append(st.log, SleepEvent(us))]

\* PCA9685._reset
_reset(st) == write_memory(st, MODE1, <<0>>, FALSE)

\* PCA9685.frequency (getter)
frequency(m) == round(OscClock, Counts * (readfrom_mem(m, PRESCALE, 1)[1] + 1))

\* the range check with both ends excluded
ValidFrequencyExclusive(f) == (MinFrequency < f) /\ (f < MaxFrequency)

\* the range check without its upper end
ValidFrequencyNoMax(f) == MinFrequency <= f

\* the range check of the frequency setter
ValidFrequency(f) == (MinFrequency <= f) /\ (f <= MaxFrequency)

\* the prescaler value the frequency setter computes
scale(f) == round(OscClock, Counts * f)

\* the setter writing the prescaler before putting the board to sleep
frequency_setter_awake(st, f) ==
    IF st.err # "none" THEN st
    ELSE IF ~ValidFrequency(f) THEN [st EXCEPT !.err = "ValueError"]
    ELSE LET s1 == write_memory(st, PRESCALE, <<scale(f)>>, FALSE)
             s2 == write_memory(s1, MODE1, <<SleepMode>>, FALSE)
             s3 == write_memory(s2, MODE1, <<0>>, FALSE)
             s4 == sleep_us(s3, SleepMicros)
         IN  write_memory(s4, MODE1, <<RestartMode>>, FALSE)

\* PCA9685.frequency (setter)
frequency_setter(st, f) ==
    IF st.err # "none" THEN st
    ELSE IF ~ValidFrequency(f) THEN [st EXCEPT !.err = "ValueError"]
    ELSE LET s1 == write_memory(st, MODE1, <<SleepMode>>, FALSE)
             s2 == write_memory(s1, PRESCALE, <<scale(f)>>, FALSE)
             s3 == write_memory(s2, MODE1, <<0>>, FALSE)
             s4 == sleep_us(s3, SleepMicros)
         IN  write_memory(s4, MODE1, <<RestartMode>>, FALSE)

(***************************************************************************)
(* PWMPin / ServoPin                                                       *)
(***************************************************************************)
\* PWMPin.pwm (getter)
pwm(m, i) == unpack(readfrom_mem(m, address(i), 4))

\* the range check letting the full-on count 4096 through
ValidPwmFullOn(on, off) == (0 <= on) /\ (on <= 4096) /\ (0 <= off) /\ (off <= 4096)

\* the range check of set_pwm
ValidPwm(on, off) == (0 <= on) /\ (on <= 4095) /\ (0 <= off) /\ (off <= 4096)

\* PWMPin.set_pwm
set_pwm(st, i, on, off) ==
    IF st.err # "none" THEN st
    ELSE IF ValidPwm(on, off)
    THEN write_memory(st, address(i), pack(on, off), TRUE)
    ELSE [st EXCEPT !.err = "ValueError"]

\* PWMPin.duty (getter)
duty(m, i) ==
    LET p == pwm(m, i)
    IN  IF (p[1] = 0) /\ (p[2] = 4096) THEN 0
        ELSE IF (p[1] = 4096) /\ (p[2] = 0) THEN 4095
        ELSE p[2]

\* ServoPin._duty_bound
_duty_bound(lo, hi, value) == min(hi, max(lo, value))

\* the value the duty setter goes on with: PWMPin._duty_bound raises
\* NotImplementedError, which the setter swallows
bound(k, lo, hi, value) ==
    IF k = "ServoController" THEN _duty_bound(lo, hi, value) ELSE value

\* PWMPin.duty (setter) on a board of kind k with bounds lo, hi
duty_setter(st, k, lo, hi, i, value) ==
    IF st.err # "none" THEN st
    ELSE LET s0 == [st EXCEPT !.dutylog = Append(st.dutylog, <<i, value>>)]
             v == bound(k, lo, hi, value)
         IN  IF v = 0 THEN set_pwm(s0, i, 0, 4096)
             ELSE IF v = 4095 THEN set_pwm(s0, i, 4096, 0)
             ELSE set_pwm(s0, i, 0, v)

(***************************************************************************)
(* Segment                                                                 *)
(***************************************************************************)
bits_representation == <<63, 6, 91, 79, 102, 109, 125, 7, 127, 111>>

\* bits_representation[d] & pow(2, index)
bit(mask, index) == (mask \div (2 ^ index)) % 2 = 1

\* main.py
minutes_duties == <<<<245, 450>>, <<265, 470>>, <<275, 460>>, <<275, 491>>,
                    <<275, 491>>, <<286, 491>>, <<257, 491>>>>
hours_duties == <<>>

\* Segment.duties
duties(ds, lo, hi, pin) == IF InRange(ds, pin) THEN item(ds, pin) ELSE <<lo, hi>>

\* one iteration of the loops of Segment.write: step 0..6 is the ones
\* place on pins 0..6, step 7..13 the tens place on pins 7..13
write_step(st, k, lo, hi, ds, number, step) ==
    LET digit == IF step < 7 THEN number % 10 ELSE number \div 10
        index == IF step < 7 THEN step ELSE step - 7
        pair == duties(ds, lo, hi, step)
    IN  IF st.err # "none" THEN st
        ELSE IF ~InRange(bits_representation, digit)
        THEN [st EXCEPT !.err = "IndexError"]
        ELSE IF bit(item(bits_representation, digit), index)
        THEN duty_setter(st, k, lo, hi, step, pair[2])
        ELSE duty_setter(st, k, lo, hi, step, pair[1])

RECURSIVE write_from(_, _, _, _, _, _, _)
write_from(st, k, lo, hi, ds, number, step) ==
    IF step > 13 THEN st
    ELSE write_from(write_step(st, k, lo, hi, ds, number, step),
                    k, lo, hi, ds, number, step + 1)

\* Segment.write
write(st, k, lo, hi, ds, number) == write_from(st, k, lo, hi, ds, number, 0)

(***************************************************************************)
(* Construction                                                            *)
(***************************************************************************)
\* registers of a board after power-on (datasheet defaults): MODE1 = 0x11,
\* PRE_SCALE = 0x1E, every pin full off, (on, off) = (0, 4096)
PowerOnMem ==
    [r \in Regs |-> IF r = MODE1 THEN 17
                    ELSE IF r = PRESCALE THEN 30
                    ELSE IF (r - LED0_ON_L) % 4 = 3 THEN 16 ELSE 0]

\* PCA9685.__init__
PCA9685_init == _reset(Begin(PowerOnMem))

\* ServoController.__init__
ServoController_init(f) == frequency_setter(_reset(Begin(PowerOnMem)), f)

\* (min_duty, max_duty) given to ServoController: the defaults, the full
\* logical range, and a swapped pair, which the constructor accepts too
DutyBounds == {<<DefaultMinDuty, DefaultMaxDuty>>, <<0, 4095>>, <<DefaultMaxDuty, DefaultMinDuty>>}

\* the duty tables main.py gives to its two Segments
DutyTables == {hours_duties, minutes_duties}

InitBase ==
    /\ kind = "PCA9685"
    /\ min_duty = 0
    /\ max_duty = 0
    /\ _duties = <<>>
    /\ mem = PCA9685_init.mem
    /\ log = PCA9685_init.log
    /\ err = PCA9685_init.err
    /\ args = <<>>

InitServo(bs, ds) ==
    /\ kind = "ServoController"
    /\ min_duty = bs[1]
    /\ max_duty = bs[2]
    /\ _duties = ds
    /\ mem = ServoController_init(DefaultFrequency).mem
    /\ log = ServoController_init(DefaultFrequency).log
    /\ err = ServoController_init(DefaultFrequency).err
    /\ args = <<DefaultFrequency, bs[1], bs[2]>>

InitCall ==
    /\ op = "__init__"
    /\ ret = <<>>
    /\ dutylog = <<>>

\* budget of a run with no limit on its calls
Unlimited == 0 - 1

Init ==
    /\ InitCall
    /\ budget = MaxCalls
    /\ \/ InitBase
       \/ \E bs \in DutyBounds, ds \in DutyTables : InitServo(bs, ds)

(***************************************************************************)
(* Calls                                                                   *)
(***************************************************************************)
Config == <<kind, min_duty, max_duty, _duties>>

\* the outcome st of a call becomes the new state, if the run has a call left
Finish(name, a, st, r) ==
    /\ budget # 0
    /\ budget' = IF budget > 0 THEN budget - 1 ELSE budget
    /\ \E s \in {st} :
        /\ op' = name
        /\ args' = a
        /\ mem' = s.mem
        /\ log' = s.log
        /\ dutylog' = s.dutylog
        /\ err' = s.err
        /\ ret' = IF s.err = "none" THEN r ELSE <<>>
        /\ UNCHANGED Config

\* the two board classes; ServoController inherits the methods of PCA9685
Boards == {"PCA9685", "ServoController"}

\* board.frequency = f
SetFrequency(f) ==
    /\ kind \in Boards
    /\ Finish("set_frequency", <<f>>, frequency_setter(Begin(mem), f), <<>>)

\* board.frequency
GetFrequency ==
    /\ kind \in Boards
    /\ Finish("get_frequency", <<>>, read_memory(Begin(mem), PRESCALE, 1), <<frequency(mem)>>)

\* board.pins[i].set_pwm(on, off)
SetPwm(i, on, off) ==
    /\ i \in Pins
    /\ Finish("set_pwm", <<i, on, off>>, set_pwm(Begin(mem), i, on, off), <<>>)

\* board.pins[i].pwm
GetPwm(i) ==
    /\ i \in Pins
    /\ Finish("get_pwm", <<i>>, read_memory(Begin(mem), address(i), 4), pwm(mem, i))

\* board.pins[i].duty = value
SetDuty(i, value) ==
    /\ i \in Pins
    /\ Finish("set_duty", <<i, value>>,
              duty_setter(Begin(mem), kind, min_duty, max_duty, i, value), <<>>)

\* board.pins[i].duty
GetDuty(i) ==
    /\ i \in Pins
    /\ Finish("get_duty", <<i>>, read_memory(Begin(mem), address(i), 4), <<duty(mem, i)>>)

\* segment.write(number); a Segment wraps a ServoController
SegmentWrite(number) ==
    /\ kind = "ServoController"
    /\ Finish("write", <<number>>,
              write(Begin(mem), kind, min_duty, max_duty, _duties, number), <<>>)

(***************************************************************************)
(* Inputs                                                                  *)
(***************************************************************************)
FreqSamples == {MinFrequency - 1, MinFrequency, DefaultFrequency, MaxFrequency, MaxFrequency + 1}
FarFrequencies == {0 - 1, 0, 3000} \cup {50 * k : k \in 1 .. 30}
FreqInputs == ((MinFrequency - FreqMargin) .. (MinFrequency + FreqSpan))
              \cup ((MaxFrequency - FreqSpan) .. (MaxFrequency + FreqMargin))
              \cup FarFrequencies
PwmSamples == {<<0, 0>>, <<0, 4096>>, <<4095, 4096>>, <<4096, 0>>, <<4096, 1>>,
               <<0 - 1, 0>>, <<0, 0 - 1>>, <<0, 4097>>, <<300, 1000>>}
DutySamples == {0 - 1, 0, 1, 179, 300, 501, 4094, 4095, 4096, 4097}
NumSamples == {0 - 1, 0, 42, 88, 99, 100}
NumInputs == (0 - NumMargin) .. (99 + NumMargin)

(***************************************************************************)
(* Specifications                                                          *)
(***************************************************************************)
\* up to MaxCalls calls of any kind on a freshly constructed board
Next ==
    \/ \E f \in FreqSamples : SetFrequency(f)
    \/ GetFrequency
    \/ \E i \in Pins, p \in PwmSamples : SetPwm(i, p[1], p[2])
    \/ \E i \in Pins : GetPwm(i)
    \/ \E i \in Pins, v \in DutySamples : SetDuty(i, v)
    \/ \E i \in Pins : GetDuty(i)
    \/ \E n \in NumSamples : SegmentWrite(n)

Spec == Init /\ [][Next]_vars

\* any sequence of frequency calls on a default ServoController
InitFreq ==
    /\ InitCall
    /\ budget = Unlimited
    /\ InitServo(<<DefaultMinDuty, DefaultMaxDuty>>, hours_duties)

NextFreq ==
    \/ \E f \in FreqInputs : SetFrequency(f)
    \/ GetFrequency

SpecFreq == InitFreq /\ [][NextFreq]_vars

\* any sequence of Segment.write calls on the two boards main.py builds
InitSeg ==
    /\ InitCall
    /\ budget = Unlimited
    /\ \E ds \in DutyTables : InitServo(<<DefaultMinDuty, DefaultMaxDuty>>, ds)

NextSeg == \E n \in NumInputs : SegmentWrite(n)

SpecSeg == InitSeg /\ [][NextSeg]_vars

(***************************************************************************)
(* Properties                                                              *)
(***************************************************************************)
\* the four registers of pin i, as the register map of the interface gives them
PinRegs(i) == (6 + 4 * i) .. (6 + 4 * i + 3)

\* bit b (a power of two) is set in byte x
HasBit(x, b) == (x \div b) % 2 = 1

\* the segments lit for each digit 0..9
LitSegments == <<{0, 1, 2, 3, 4, 5}, {1, 2}, {0, 1, 3, 4, 6}, {0, 1, 2, 3, 6},
                 {1, 2, 5, 6}, {0, 2, 3, 5, 6}, {0, 2, 3, 4, 5, 6}, {0, 1, 2},
                 {0, 1, 2, 3, 4, 5, 6}, {0, 1, 2, 3, 5, 6}>>

\* the (off_duty, on_duty) pair of a channel: configured, or the bounds
PairOf(channel) ==
    IF channel < Len(_duties) THEN _duties[channel + 1] ELSE <<min_duty, max_duty>>

\* the duty Segment.write(n) is to assign to a channel in 0..13
DutyFor(n, channel) ==
    LET digit == IF channel < 7 THEN n % 10 ELSE n \div 10
        seg == IF channel < 7 THEN channel ELSE channel - 7
    IN  IF seg \in LitSegments[digit + 1] THEN PairOf(channel)[2] ELSE PairOf(channel)[1]

\* C1: on a base PWMPin every set_duty(v) with v in 0..4095 succeeds and
\* get_duty() then returns v (0 for 0, 4095 for 4095); set_duty(4095) stores
\* the pair (4096, 0) and set_duty(0) the pair (0, 4096).
C1_DutyRoundTrip ==
    (kind = "PCA9685" /\ op = "set_duty" /\ args[2] \in 0 .. 4095) =>
        /\ err = "none"
        /\ duty(mem, args[1]) = args[2]
        /\ (args[2] = 4095 => pwm(mem, args[1]) = <<4096, 0>>)
        /\ (args[2] = 0 => pwm(mem, args[1]) = <<0, 4096>>)

\* C2: Segment.write(n) with n outside 0..99 is rejected with an error and
\* issues no bus write; the registers are the same after the call as before.
C2_WriteRejectsOutOfRange ==
    [][(op' = "write" /\ ~(args'[1] \in 0 .. 99)) =>
           (err' # "none" /\ log' = <<>> /\ mem' = mem)]_vars

\* C3: for n in 0..99 Segment.write(n) makes exactly 14 duty assignments,
\* channels 0..13 in increasing order, each channel getting its on_duty if
\* its segment is lit for its digit and its off_duty otherwise.
C3_WriteDrivesSegments ==
    (op = "write" /\ args[1] \in 0 .. 99) =>
        /\ Len(dutylog) = 14
        /\ \A c \in 0 .. 13 : dutylog[c + 1] = <<c, DutyFor(args[1], c)>>

\* the value the mode register holds when event k of the log is issued
RECURSIVE ModeBefore(_, _)
ModeBefore(m0, k) ==
    IF k <= 1 THEN m0
    ELSE IF log[k - 1].ev = "write" /\ log[k - 1].reg = 0
    THEN log[k - 1].data[1]
    ELSE ModeBefore(m0, k - 1)

\* C4: a successful set_frequency(f) issues, in this order and nothing
\* else: mode := sleep bit only, prescaler := scale, mode := 0, a wait of at
\* least 500 us, mode := restart and auto-increment bits; no call, the
\* constructor included, writes the prescaler unless the mode value it wrote
\* last has the sleep bit set.
C4_FrequencySequence ==
    /\ (op = "set_frequency" /\ err = "none") =>
        /\ Len(log) = 5
        /\ log[1] = [ev |-> "write", reg |-> 0, data |-> <<16>>]
        /\ log[2] = [ev |-> "write", reg |-> 254,
                     data |-> <<round(25000000, 4096 * args[1])>>]
        /\ log[3] = [ev |-> "write", reg |-> 0, data |-> <<0>>]
        /\ log[4].ev = "sleep_us" /\ log[4].data[1] >= 500
        /\ log[5].ev = "write" /\ log[5].reg = 0 /\ Len(log[5].data) = 1
        /\ HasBit(log[5].data[1], 128) /\ HasBit(log[5].data[1], 32)
        /\ ~HasBit(log[5].data[1], 16)
    /\ \A k \in DOMAIN log :
           (log[k].ev = "write" /\ log[k].reg = 254) =>
               (k > 1 /\ HasBit(ModeBefore(0, k), 16))

C4_Witness ==
    /\ op = "set_frequency" /\ err = "none" /\ args = <<1000>>
    /\ Len(log) = 5 /\ mem[254] = 6 /\ mem[0] = 161

\* C5: for every constructed ServoController the value ServoPin passes on
\* lies in [min_duty, max_duty], and clamping it again does not change it.
C5_ClampWithinBounds ==
    (kind = "ServoController" /\ op = "set_duty") =>
        LET c == _duty_bound(min_duty, max_duty, args[2])
        IN  /\ min_duty <= c
            /\ c <= max_duty
            /\ _duty_bound(min_duty, max_duty, c) = c

\* C6: set_pwm(on, off) fails unless 0 <= on <= 4095 and 0 <= off <= 4096;
\* a failing call issues no bus transaction and leaves the registers alone;
\* an accepted call writes the 4 bytes on, off as little-endian 16-bit counts
\* at the pin's offset, and get_pwm() then returns (on, off).
C6_SetPwmChecked ==
    [][(op' = "set_pwm") =>
        LET i == args'[1]
            on == args'[2]
            off == args'[3]
            ok == (0 <= on) /\ (on <= 4095) /\ (0 <= off) /\ (off <= 4096)
        IN  /\ (err' = "none") <=> ok
            /\ (~ok) => (err' = "ValueError" /\ log' = <<>> /\ mem' = mem)
            /\ ok => /\ log' = <<[ev |-> "write", reg |-> 6 + 4 * i,
                                  data |-> <<on % 256, on \div 256,
                                             off % 256, off \div 256>>]>>
                     /\ \A k \in 0 .. 3 : mem'[6 + 4 * i + k] = log'[1].data[k + 1]
                     /\ pwm(mem', i) = <<on, off>>]_vars

C6_Witness ==
    /\ op = "set_pwm" /\ err = "none" /\ args = <<15, 300, 1000>>
    /\ pwm(mem, 15) = <<300, 1000>>

\* C7: set_frequency(f) fails for every f < 24 and every f > 1526 and
\* succeeds for every f in 24..1526; a failing call issues no bus write and
\* leaves the mode and prescaler registers unchanged.
C7_FrequencyRange ==
    [][(op' = "set_frequency") =>
        /\ (err' = "none") <=> (24 <= args'[1] /\ args'[1] <= 1526)
        /\ (err' # "none") => (log' = <<>> /\ mem' = mem)]_vars

C7_Witness == op = "set_frequency" /\ args = <<1527>> /\ err = "ValueError" /\ log = <<>>

\* C8: after an accepted set_frequency(f), get_frequency() returns the
\* frequency of the prescaler value s = round(25,000,000 / (4096 f)) - 1,
\* that is round(25,000,000 / (4096 (s + 1))).
C8_FrequencyRoundTrip ==
    (op = "set_frequency" /\ err = "none") =>
        LET s == round(25000000, 4096 * args[1]) - 1
        IN  frequency(mem) = round(25000000, 4096 * (s + 1))

\* C9: in every state of a constructed ServoController, after any sequence
\* of set_frequency calls, get_frequency() is in 24..1526, and every
\* prescaler value written is in 0..255.
C9_FrequencyInvariant ==
    /\ 24 <= frequency(mem) /\ frequency(mem) <= 1526
    /\ \A k \in DOMAIN log :
           (log[k].ev = "write" /\ log[k].reg = 254) =>
               (Len(log[k].data) = 1 /\ log[k].data[1] \in 0 .. 255)

C9_Witness ==
    /\ op = "set_frequency" /\ err = "none" /\ args = <<1526>>
    /\ mem[254] = 4 /\ frequency(mem) = 1221

\* C10: set_pwm / set_duty on pin i writes only the four registers
\* 0x06+4i .. 0x06+4i+3 and changes no other register; the register ranges
\* of the 16 pins are pairwise disjoint; Segment.write changes neither the
\* mode register, nor the prescaler, nor the registers of channels 14, 15.
C10_PinWriteFrame ==
    [][/\ (op' \in {"set_pwm", "set_duty"}) =>
            /\ \A r \in Regs \ PinRegs(args'[1]) : mem'[r] = mem[r]
            /\ \A k \in DOMAIN log' :
                   /\ log'[k].ev = "write"
                   /\ log'[k].reg = 6 + 4 * args'[1]
                   /\ Len(log'[k].data) = 4
       /\ (op' = "write") =>
            /\ mem'[0] = mem[0]
            /\ mem'[254] = mem[254]
            /\ \A r \in PinRegs(14) \cup PinRegs(15) : mem'[r] = mem[r]
       /\ (op' \in {"set_pwm", "set_duty", "get_pwm", "get_duty"}) =>
            \A j \in Pins \ {args'[1]} :
                (address(args'[1]) .. (address(args'[1]) + 3))
                    \cap (address(j) .. (address(j) + 3)) = {}]_vars

C10_Witness ==
    /\ op = "set_duty" /\ err = "none" /\ args = <<15, 300>>
    /\ pwm(mem, 15) = <<0, 300>>
    /\ pwm(mem, 14) = <<0, 4096>>

====
